---- MODULE Spec2Model ----
(***************************************************************************)
(* Model of mp_calc.py: the mechanical-power formula engine, the guardrail *)
(* checker, the candidate move generator, apply_move, rank_moves and the   *)
(* greedy planner.                                                         *)
(*                                                                         *)
(* Numbers.  The source computes with floats; the model computes with      *)
(* exact integers in fixed units:                                          *)
(*   rr_bpm in breaths/min, vt_ml in mL, pressures in cmH2O,               *)
(*   cstat_L_per_cmH2O in mL/cmH2O (1000 times the source's value),        *)
(*   predicted body weight in 1/1270 kg,                                   *)
(*   mechanical power in K/(2000*c) J/min, where K = 0.098 and c is the    *)
(*   setting's compliance in mL/cmH2O (1 when it is None or 0).  No move   *)
(*   changes the compliance, so all MP values compared within one call     *)
(*   share their unit and the order of the integers is the order of the    *)
(*   source's reals.                                                       *)
(* The move the source labels with a Greek capital delta followed by       *)
(* "Pinsp -2" is written "dPinsp -2".                                      *)
(***************************************************************************)
EXTENDS Integers, Sequences, FiniteSets, TLC

VARIABLES inp, pc, ret, priors, steps, cur, plan, i

vars == <<inp, pc, ret, priors, steps, cur, plan, i>>

\* ---------------------------------------------------------------- constants
DEFAULT_VT_MIN == 4
DEFAULT_VT_MAX == 8
DEFAULT_RR_MIN == 8
DEFAULT_RR_MAX == 35
DEFAULT_PEEP_MIN == 5
DEFAULT_PEEP_MAX == 40
PEAK_LIMIT_NOTE == 30

\* Python's None for an optional numeric field.
None == -1000

\* ---------------------------------------------------------------- bounds
MaxSteps == 2

\* ---------------------------------------------------------------- helpers
Max(a, b) == IF a >= b THEN a ELSE b

\* str.upper() on the mode strings of the model.
Upper(m) == IF m = " vc" THEN " VC" ELSE m

\* str.strip() on the mode strings of the model.
Strip(m) == IF m = " VC" THEN "VC" ELSE IF m = " vc" THEN "vc" ELSE m

\* pbw_kg, in 1/1270 kg: 1270 * (base + 2.3 * (h/2.54 - 60)).
pbw_kg(sex, height_cm) ==
    IF sex = "M" THEN 1150 * height_cm - 111760
                 ELSE 1150 * height_cm - 117475

\* The denominator the MP unit carries for a setting's compliance.
Cden(cstat) == IF cstat = None \/ cstat = 0 THEN 1 ELSE cstat

\* vc_mp_simplified with Pplat estimated from VT in mL instead of litres
\* (vt_ml / cstat for vt_L / cstat).
vc_mp_simplified_mL(rr_bpm, vt_ml, peep, pplat, ppeak, cstat) ==
    LET c      == Cden(cstat)
        est    == pplat = None /\ cstat # None /\ cstat # 0
        pplatN == IF est THEN 1000 * vt_ml + peep * c ELSE pplat * c
        ppeakN == IF ppeak = None THEN pplatN + 5 * c ELSE ppeak * c
        term2  == 2 * ppeakN - (pplatN - peep * c)
    IN  IF pplat = None /\ ~est
        THEN [ok |-> FALSE, mp |-> 0]
        ELSE [ok |-> TRUE, mp |-> rr_bpm * vt_ml * term2]

\* vc_mp_simplified.  pplatN, ppeakN are the pressures times c.
vc_mp_simplified(rr_bpm, vt_ml, peep, pplat, ppeak, cstat) ==
    LET c      == Cden(cstat)
        est    == pplat = None /\ cstat # None /\ cstat # 0
        pplatN == IF est THEN vt_ml + peep * c ELSE pplat * c
        ppeakN == IF ppeak = None THEN pplatN + 5 * c ELSE ppeak * c
        term2  == 2 * ppeakN - (pplatN - peep * c)
    IN  IF pplat = None /\ ~est
        THEN [ok |-> FALSE, mp |-> 0]
        ELSE [ok |-> TRUE, mp |-> rr_bpm * vt_ml * term2]

\* pc_mp_simplified; c is the unit's denominator (the formula has none).
pc_mp_simplified(rr_bpm, vt_ml, peep, delta_pinsp, pip, c) ==
    LET dp == IF delta_pinsp = None /\ pip # None THEN pip - peep
              ELSE delta_pinsp
    IN  IF dp = None
        THEN [ok |-> FALSE, mp |-> 0]
        ELSE [ok |-> TRUE, mp |-> rr_bpm * vt_ml * (2 * c * (peep + dp))]

compute_mp(s) ==
    LET mode == Upper(Strip(s.mode))
    IN  IF mode = "VC"
        THEN vc_mp_simplified(s.rr_bpm, s.vt_ml, s.peep, s.pplat, s.ppeak,
                              s.cstat_L_per_cmH2O)
        ELSE IF mode \in {"PC", "PRVC"}
        THEN pc_mp_simplified(s.rr_bpm, s.vt_ml, s.peep, s.delta_pinsp, s.pip,
                              Cden(s.cstat_L_per_cmH2O))
        ELSE [ok |-> FALSE, mp |-> 0]

\* guardrail_messages: the kinds of the messages, in the order appended.
guardrail_messages(s) ==
    LET pbw  == pbw_kg(s.sex, s.height_cm)
        mode == Upper(Strip(s.mode))
        vt   == IF s.sex # "" /\ s.height_cm # 0 /\ pbw > 0
                   /\ ~(DEFAULT_VT_MIN * pbw <= s.vt_ml * 1270
                        /\ s.vt_ml * 1270 <= DEFAULT_VT_MAX * pbw)
                THEN <<"VT/PBW">> ELSE <<>>
        rr   == IF ~(DEFAULT_RR_MIN <= s.rr_bpm /\ s.rr_bpm <= DEFAULT_RR_MAX)
                THEN <<"RR">> ELSE <<>>
        pe   == IF ~(DEFAULT_PEEP_MIN <= s.peep /\ s.peep <= DEFAULT_PEEP_MAX)
                THEN <<"PEEP">> ELSE <<>>
        pl   == IF mode = "VC" /\ s.pplat # None /\ s.pplat > PEAK_LIMIT_NOTE
                THEN <<"Pplat">> ELSE <<>>
        pi   == IF mode \in {"PC", "PRVC"} /\ s.pip # None
                   /\ s.pip > PEAK_LIMIT_NOTE
                THEN <<"PIP">> ELSE <<>>
    IN  vt \o rr \o pe \o pl \o pi

\* The VT -50 test of candidate_moves (the variable ok).
vt_move_ok(s) ==
    LET pbw == pbw_kg(s.sex, s.height_cm)
        ok1 == ~(s.sex # "" /\ s.height_cm # 0 /\ pbw > 0
                 /\ (s.vt_ml - 50) * 1270 < DEFAULT_VT_MIN * pbw)
        ok2 == ~(s.vt_ml - 50 <= 150)
    IN  ok1 /\ ok2

candidate_moves(s) ==
    LET mode == Upper(s.mode)
        dpin == IF s.delta_pinsp = None /\ s.pip # None THEN s.pip - s.peep
                ELSE s.delta_pinsp
    IN  (IF s.rr_bpm - 2 >= DEFAULT_RR_MIN THEN <<"RR -2">> ELSE <<>>)
        \o (IF s.peep - 1 >= DEFAULT_PEEP_MIN THEN <<"PEEP -1">> ELSE <<>>)
        \o (IF mode = "VC"
            THEN (IF vt_move_ok(s) THEN <<"VT -50">> ELSE <<>>)
            ELSE (IF dpin # None /\ dpin - 2 >= 0 THEN <<"dPinsp -2">>
                  ELSE <<>>))

\* The field change of apply_move (lines 165-179): ok is FALSE where the
\* source raises ValueError.
Perturb(s, move) ==
    IF move = "RR -2"
    THEN [ok |-> TRUE,
          state |-> [s EXCEPT !.rr_bpm = Max(DEFAULT_RR_MIN, s.rr_bpm - 2)]]
    ELSE IF move = "PEEP -1"
    THEN [ok |-> TRUE,
          state |-> [s EXCEPT !.peep = Max(DEFAULT_PEEP_MIN, s.peep - 1)]]
    ELSE IF move = "VT -50"
    THEN [ok |-> TRUE, state |-> [s EXCEPT !.vt_ml = Max(0, s.vt_ml - 50)]]
    ELSE IF move = "dPinsp -2"
    THEN IF s.delta_pinsp # None
         THEN [ok |-> TRUE,
               state |-> [s EXCEPT !.delta_pinsp = Max(0, s.delta_pinsp - 2)]]
         ELSE IF s.pip # None
         THEN [ok |-> TRUE,
               state |-> [s EXCEPT !.pip = Max(s.peep, s.pip - 2)]]
         ELSE [ok |-> FALSE, state |-> s]
    ELSE [ok |-> FALSE, state |-> s]

apply_move(s, move) ==
    LET j == Perturb(s, move)
        r == compute_mp(j.state)
    IN  IF j.ok /\ r.ok
        THEN [ok |-> TRUE, mp |-> r.mp, state |-> j.state]
        ELSE [ok |-> FALSE, mp |-> 0, state |-> s]

\* ---------------------------------------------------------------- priors
\* A priors mapping: vals holds <<mode, move, mean_abs_drop>> for the leaves
\* with a numeric mean_abs_drop, bad holds <<mode, move>> for the leaves
\* present without one (float(...["mean_abs_drop"]) raises on them).  None
\* and the empty mapping both read as "no entry anywhere".
PriorOf(p, mode, m) ==
    IF \E t \in p.vals : t[1] = mode /\ t[2] = m
    THEN (CHOOSE t \in p.vals : t[1] = mode /\ t[2] = m)[3]
    ELSE None

\* One pass of the loop body of rank_moves (lines 187-208): ok is FALSE where
\* the except clause drops the candidate.
EvalCandidate(s, p, base_mp, m) ==
    LET a    == apply_move(s, m)
        mode == Upper(s.mode)
        rec  == [move |-> m, base_mp |-> base_mp, new_mp |-> a.mp,
                 abs_drop |-> base_mp - a.mp,
                 prior_abs_drop |-> PriorOf(p, mode, m)]
    IN  [ok |-> a.ok /\ <<mode, m>> \notin p.bad, rec |-> rec]

\* RankLoop with the except clause leaving the loop (break for continue).
RECURSIVE RankLoopAbort(_, _, _, _, _)
RankLoopAbort(s, p, base_mp, moves, out) ==
    IF moves = <<>> THEN out
    ELSE LET e == EvalCandidate(s, p, base_mp, Head(moves))
         IN  IF e.ok
             THEN RankLoopAbort(s, p, base_mp, Tail(moves), Append(out, e.rec))
             ELSE out

\* The for loop of rank_moves over the candidate moves, appending to out.
RECURSIVE RankLoop(_, _, _, _, _)
RankLoop(s, p, base_mp, moves, out) ==
    IF moves = <<>> THEN out
    ELSE LET e == EvalCandidate(s, p, base_mp, Head(moves))
         IN  RankLoop(s, p, base_mp, Tail(moves),
                      IF e.ok THEN Append(out, e.rec) ELSE out)

\* InsertDesc without reverse=True: the sort is ascending.
InsertAsc(sorted, r) ==
    LET n == Cardinality({k \in 1..Len(sorted) :
                             sorted[k].abs_drop <= r.abs_drop})
    IN  SubSeq(sorted, 1, n) \o <<r>> \o SubSeq(sorted, n + 1, Len(sorted))

\* list.sort(key=abs_drop, reverse=True): stable, so records with equal
\* abs_drop keep the order they were appended in.
InsertDesc(sorted, r) ==
    LET n == Cardinality({k \in 1..Len(sorted) :
                             sorted[k].abs_drop >= r.abs_drop})
    IN  SubSeq(sorted, 1, n) \o <<r>> \o SubSeq(sorted, n + 1, Len(sorted))

RECURSIVE SortDesc(_, _)
SortDesc(rest, sorted) ==
    IF rest = <<>> THEN sorted
    ELSE SortDesc(Tail(rest), InsertDesc(sorted, Head(rest)))

\* rank_moves: ok is FALSE where compute_mp of the baseline raises.
rank_moves(s, p) ==
    LET base == compute_mp(s)
    IN  IF ~base.ok THEN [ok |-> FALSE, list |-> <<>>]
        ELSE [ok |-> TRUE,
              list |-> SortDesc(RankLoop(s, p, base.mp, candidate_moves(s),
                                         <<>>), <<>>)]

\* Commit with the PEEP move clamped at the RR rail (a copy-paste slip).
CommitWrongRail(c, move) ==
    IF move = "PEEP -1"
    THEN [ok |-> TRUE,
          state |-> [c EXCEPT !.peep = Max(DEFAULT_RR_MIN, c.peep - 1)]]
    ELSE Perturb(c, move)

\* The commit of greedy_plan (lines 223-235) on the working copy: ok is FALSE
\* where the loop breaks because no field can be changed.
Commit(c, move) ==
    IF move = "RR -2"
    THEN [ok |-> TRUE,
          state |-> [c EXCEPT !.rr_bpm = Max(DEFAULT_RR_MIN, c.rr_bpm - 2)]]
    ELSE IF move = "PEEP -1"
    THEN [ok |-> TRUE,
          state |-> [c EXCEPT !.peep = Max(DEFAULT_PEEP_MIN, c.peep - 1)]]
    ELSE IF move = "VT -50"
    THEN [ok |-> TRUE, state |-> [c EXCEPT !.vt_ml = Max(0, c.vt_ml - 50)]]
    ELSE IF move = "dPinsp -2"
    THEN IF c.delta_pinsp # None
         THEN [ok |-> TRUE,
               state |-> [c EXCEPT !.delta_pinsp = Max(0, c.delta_pinsp - 2)]]
         ELSE IF c.pip # None
         THEN [ok |-> TRUE,
               state |-> [c EXCEPT !.pip = Max(c.peep, c.pip - 2)]]
         ELSE [ok |-> FALSE, state |-> c]
    ELSE [ok |-> TRUE, state |-> c]

\* InRange off by one: range(steps + 1).
InRangeOffByOne(k, n) == k <= n

\* The loop bound of greedy_plan: for _ in range(steps).
InRange(k, n) == k < n

\* Improving with the test of line 220 left out.
ImprovingAlways(best) == TRUE

\* The test of line 220 negated: the loop goes on to commit best.
Improving(best) == ~(best.abs_drop <= 0)

\* ---------------------------------------------------------------- inputs
MoveLabels == {"RR -2", "PEEP -1", "VT -50", "dPinsp -2"}

\* The pressure fields the model draws for each family of modes:
\* <<pplat, ppeak, cstat, delta_pinsp, pip>>.
VCPressures ==
    { <<26, 31, None, None, None>>,  <<26, None, None, None, None>>,
      <<None, None, 40, None, None>>, <<None, 30, 10, None, None>>,
      <<32, 10, None, None, None>>,  <<None, None, 0, None, None>>,
      <<26, 31, None, 5, None>> }

PCPressures ==
    { <<None, None, None, 15, None>>, <<None, None, None, None, 26>>,
      <<None, None, None, 1, None>>,  <<None, None, None, None, 32>>,
      <<None, None, None, None, None>> }

ModePressures ==
    ({"VC", " vc"} \X VCPressures) \cup ({"PC", "PRVC"} \X PCPressures)
    \cup {<<"XX", <<26, 31, None, 15, None>> >>}

RRValues == {0, 8, 9, 20, 40}
VTValues == {0, 180, 200, 420}
PEEPValues == {3, 5, 8}
\* <<sex, height_cm>>; "" and 0 stand for a missing (falsy) value.
Bodies == { <<"", 0>>, <<"M", 190>>, <<"F", 160>>, <<"F", 100>> }

Settings ==
    { [mode |-> mp[1], rr_bpm |-> rr, vt_ml |-> vt, peep |-> pe,
       pplat |-> mp[2][1], ppeak |-> mp[2][2],
       cstat_L_per_cmH2O |-> mp[2][3], delta_pinsp |-> mp[2][4],
       pip |-> mp[2][5], sex |-> b[1], height_cm |-> b[2]] :
      mp \in ModePressures, rr \in RRValues, vt \in VTValues,
      pe \in PEEPValues, b \in Bodies }

NoPriors == [vals |-> {}, bad |-> {}]

PriorsNum ==
    [vals |-> { <<"VC", "RR -2", 1>>, <<"VC", "VT -50", 5>>,
                <<"PC", "RR -2", 1>>, <<"PC", "dPinsp -2", 5>>,
                <<"PRVC", "PEEP -1", 3>> },
     bad |-> {}]

PriorsBad ==
    [vals |-> { <<"VC", "VT -50", 5>>, <<"PC", "dPinsp -2", 5>> },
     bad |-> { <<"VC", "RR -2">>, <<"PC", "PEEP -1">>, <<"PRVC", "RR -2">> }]

PriorsSet == {NoPriors, PriorsNum, PriorsBad}

\* ---------------------------------------------------------------- state
\* The caller's object with the writes made to a copy (j = inp, cur = inp).
CallerObjectAliased(orig, written) == written

\* The caller's object after a callee wrote its field changes: the callee
\* writes to MPInputs(**vars(inp)), a fresh object (lines 164 and 214), so
\* the caller's object keeps its fields.
CallerObject(orig, written) == orig

\* The field changes apply_move writes while rank_moves evaluates moves.
RECURSIVE PerturbAll(_, _)
PerturbAll(s, moves) ==
    IF moves = <<>> THEN s
    ELSE PerturbAll(Perturb(s, Head(moves)).state, Tail(moves))

\* What a call returned: op names the function, ok is FALSE when it raised.
Ret(op, ok, mp, state, list, msgs, move) ==
    [op |-> op, ok |-> ok, mp |-> mp, state |-> state, list |-> list,
     msgs |-> msgs, move |-> move]

Init ==
    /\ inp \in Settings
    /\ pc = "idle"
    /\ ret = Ret("none", TRUE, 0, inp, <<>>, <<>>, "")
    /\ priors = NoPriors
    /\ steps = 0
    /\ cur = inp
    /\ plan = <<>>
    /\ i = 0

\* The locals of greedy_plan do not outlive the call.
NoPlan ==
    /\ priors' = NoPriors
    /\ steps' = 0
    /\ cur' = inp
    /\ plan' = <<>>
    /\ i' = 0

CallComputeMP ==
    /\ pc = "idle"
    /\ LET r == compute_mp(inp)
       IN  ret' = Ret("compute_mp", r.ok, r.mp, inp, <<>>, <<>>, "")
    /\ NoPlan
    /\ UNCHANGED <<inp, pc>>

CallGuardrailMessages ==
    /\ pc = "idle"
    /\ ret' = Ret("guardrail_messages", TRUE, 0, inp, <<>>,
                  guardrail_messages(inp), "")
    /\ NoPlan
    /\ UNCHANGED <<inp, pc>>

CallCandidateMoves ==
    /\ pc = "idle"
    /\ ret' = Ret("candidate_moves", TRUE, 0, inp, <<>>,
                  candidate_moves(inp), "")
    /\ NoPlan
    /\ UNCHANGED <<inp, pc>>

CallApplyMove ==
    /\ pc = "idle"
    /\ \E m \in MoveLabels \cup {"bogus"} :
          LET a == apply_move(inp, m)
          IN  /\ ret' = Ret("apply_move", a.ok, a.mp, a.state, <<>>, <<>>, m)
              /\ inp' = CallerObject(inp, Perturb(inp, m).state)
    /\ NoPlan
    /\ UNCHANGED pc

CallRankMoves ==
    /\ pc = "idle"
    /\ \E p \in PriorsSet :
          /\ LET r == rank_moves(inp, p)
             IN  ret' = Ret("rank_moves", r.ok, 0, inp, r.list, <<>>, "")
          /\ priors' = p
    /\ inp' = CallerObject(inp, IF compute_mp(inp).ok
                                 THEN PerturbAll(inp, candidate_moves(inp))
                                 ELSE inp)
    /\ steps' = 0
    /\ cur' = inp
    /\ plan' = <<>>
    /\ i' = 0
    /\ UNCHANGED pc

\* greedy_plan, lines 213-214.
GreedyStart ==
    /\ pc = "idle"
    /\ \E p \in PriorsSet, n \in 0..MaxSteps :
          /\ priors' = p
          /\ steps' = n
    /\ pc' = "plan"
    /\ cur' = inp
    /\ plan' = <<>>
    /\ i' = 0
    /\ ret' = Ret("none", TRUE, 0, inp, <<>>, <<>>, "")
    /\ UNCHANGED inp

\* The loop leaves by break: lines 217-221 and 234-235.
Breaks(ranked, c) ==
    IF ranked = <<>> THEN TRUE
    ELSE IF ~Improving(ranked[1]) THEN TRUE
    ELSE ~Commit(c, ranked[1].move).ok

\* One pass of the loop in which rank_moves raises (line 216).
GreedyRaise ==
    /\ pc = "plan"
    /\ InRange(i, steps)
    /\ ~rank_moves(cur, priors).ok
    /\ pc' = "idle"
    /\ ret' = Ret("greedy_plan", FALSE, 0, cur, <<>>, <<>>, "")
    /\ UNCHANGED <<inp, priors, steps, cur, plan, i>>

\* One pass of the loop that ends in a break, and the return of line 237.
GreedyBreak ==
    /\ pc = "plan"
    /\ InRange(i, steps)
    /\ rank_moves(cur, priors).ok
    /\ Breaks(rank_moves(cur, priors).list, cur)
    /\ pc' = "idle"
    /\ ret' = Ret("greedy_plan", TRUE, 0, cur, plan, <<>>, "")
    /\ UNCHANGED <<inp, priors, steps, cur, plan, i>>

\* One pass of the loop that commits the best move (lines 216-236).
GreedyCommit ==
    /\ pc = "plan"
    /\ InRange(i, steps)
    /\ rank_moves(cur, priors).ok
    /\ ~Breaks(rank_moves(cur, priors).list, cur)
    /\ LET best == rank_moves(cur, priors).list[1]
       IN  /\ cur' = Commit(cur, best.move).state
           /\ plan' = Append(plan, best)
    /\ inp' = CallerObject(inp, cur')
    /\ i' = i + 1
    /\ UNCHANGED <<pc, ret, priors, steps>>

\* The range is exhausted: return plan (line 237).
GreedyReturn ==
    /\ pc = "plan"
    /\ ~InRange(i, steps)
    /\ pc' = "idle"
    /\ ret' = Ret("greedy_plan", TRUE, 0, cur, plan, <<>>, "")
    /\ UNCHANGED <<inp, priors, steps, cur, plan, i>>

Next ==
    \/ CallComputeMP
    \/ CallGuardrailMessages
    \/ CallCandidateMoves
    \/ CallApplyMove
    \/ CallRankMoves
    \/ GreedyStart
    \/ GreedyRaise
    \/ GreedyBreak
    \/ GreedyCommit
    \/ GreedyReturn

Spec == Init /\ [][Next]_vars

\* ================================================================ claims

\* PBW is known: sex and height are present.
PBWKnown(s) == s.sex # "" /\ s.height_cm # 0

\* x / PBW >= DEFAULT_VT_MIN over the reals, PBW in 1/1270 kg (FALSE for a
\* PBW of 0, where the quotient does not exist).
PerPBWAtLeastMin(x, s) ==
    LET pbw == pbw_kg(s.sex, s.height_cm)
    IN  IF pbw > 0 THEN x * 1270 >= DEFAULT_VT_MIN * pbw
        ELSE IF pbw < 0 THEN x * 1270 <= DEFAULT_VT_MIN * pbw
        ELSE FALSE

\* A setting within the data model's ranges (rr_bpm > 0, vt_ml >= 0).  The
\* claims the code fails are stated for these settings only: they fail
\* without help from a degenerate input.
ValidSetting(s) == s.rr_bpm > 0 /\ s.vt_ml >= 0

\* The moves of a sequence of ranked records.
MovesOf(list) == {list[k].move : k \in 1..Len(list)}

\* C1: every candidate rank_moves returns leads, by apply_move, to a setting
\* on which guardrail_messages is empty (RR, PEEP, VT/PBW within their bounds,
\* Pplat or PIP not above 30).
C1_RankedWithinGuardrails ==
    (ret.op = "rank_moves" /\ ret.ok /\ ValidSetting(inp)) =>
        \A k \in 1..Len(ret.list) :
            guardrail_messages(apply_move(inp, ret.list[k].move).state) = <<>>

\* C2: in the plan greedy_plan builds and returns, every entry has
\* new_mp <= base_mp and each entry's new_mp is <= the previous entry's.
C2_PlanMPNonIncreasing ==
    \A k \in 1..Len(plan) :
        /\ plan[k].new_mp <= plan[k].base_mp
        /\ k > 1 => plan[k].new_mp <= plan[k - 1].new_mp

C2_Witness ==
    /\ ret.op = "greedy_plan" /\ ret.ok
    /\ Len(ret.list) >= 2
    /\ ret.list[2].new_mp < ret.list[1].new_mp
    /\ ret.list[1].new_mp < ret.list[1].base_mp

\* The plan holds no more entries than passes made, no more passes are made
\* than the budget, and a returned plan is empty for steps = 0 and of at most
\* steps entries.
PlanBounded ==
    /\ Len(plan) <= i
    /\ i <= steps
    /\ (ret.op = "greedy_plan" /\ ret.ok) =>
          /\ Len(ret.list) <= steps
          /\ steps = 0 => ret.list = <<>>

\* Every step of a running call ends it or uses up one pass of the budget.
PlanStepProgress ==
    pc = "plan" =>
        \/ pc' = "idle" /\ ret'.op = "greedy_plan"
        \/ pc' = "plan" /\ i' = i + 1 /\ steps' = steps

\* C3: greedy_plan terminates (each step of a call ends it or spends one of
\* its steps passes, of which it never spends more than steps), returns an
\* empty sequence for steps = 0 and at most steps entries for steps > 0.
C3_GreedyTerminates == [][PlanBounded /\ PlanBounded' /\ PlanStepProgress]_vars

C3_Witness ==
    /\ ret.op = "greedy_plan" /\ ret.ok
    /\ steps = MaxSteps
    /\ Len(ret.list) = steps

\* C4: compute_mp raises whenever rr_bpm <= 0; it returns no MP then.
C4_InvalidRRRaises ==
    (ret.op = "compute_mp" /\ inp.rr_bpm <= 0) => ~ret.ok

\* C5: rank_moves raises exactly when the baseline MP cannot be computed, and
\* otherwise returns one record for each candidate move whose evaluation
\* (apply_move and the prior lookup) succeeds, whatever the others did.
C5_CandidateErrorsAreLocal ==
    ret.op = "rank_moves" =>
        /\ ret.ok <=> compute_mp(inp).ok
        /\ ret.ok =>
              LET cand == candidate_moves(inp)
                  good == {m \in {cand[k] : k \in 1..Len(cand)} :
                              /\ apply_move(inp, m).ok
                              /\ <<Upper(inp.mode), m>> \notin priors.bad}
              IN  /\ MovesOf(ret.list) = good
                  /\ Len(ret.list) = Cardinality(good)

C5_Witness ==
    /\ ret.op = "rank_moves" /\ ret.ok
    /\ Len(ret.list) >= 1
    /\ Len(ret.list) < Len(candidate_moves(inp))
    /\ candidate_moves(inp)[1] \notin MovesOf(ret.list)

\* The prior's contribution to the nudged score (nothing is added for None).
Nudge(r) == IF r.prior_abs_drop = None THEN 0 ELSE r.prior_abs_drop

\* C6: rank_moves returns its records by abs_drop descending, and records of
\* equal abs_drop by nudged score (abs_drop + 1e-3 * prior) descending.
C6_SortedWithNudgedTies ==
    (ret.op = "rank_moves" /\ ret.ok /\ ValidSetting(inp)) =>
        \A k \in 1..(Len(ret.list) - 1) :
            \/ ret.list[k].abs_drop > ret.list[k + 1].abs_drop
            \/ /\ ret.list[k].abs_drop = ret.list[k + 1].abs_drop
               /\ Nudge(ret.list[k]) >= Nudge(ret.list[k + 1])

\* C7: for a VolumeControl setting candidate_moves offers VT -50 exactly when
\* vt_ml - 50 >= 150 and, PBW known, (vt_ml - 50)/PBW >= 4; for PC and PRVC
\* it never offers it.  (Stated for modes spelled "VC", "PC", "PRVC" and for
\* a PBW that is unknown or positive.)
C7_VTMoveOffered ==
    (ret.op = "candidate_moves" /\ ValidSetting(inp)
       /\ (PBWKnown(inp) => pbw_kg(inp.sex, inp.height_cm) > 0)) =>
        LET offered == \E k \in 1..Len(ret.msgs) : ret.msgs[k] = "VT -50"
        IN  /\ inp.mode = "VC" =>
                  (offered <=>
                      /\ inp.vt_ml - 50 >= 150
                      /\ PBWKnown(inp) =>
                            PerPBWAtLeastMin(inp.vt_ml - 50, inp))
            /\ inp.mode \in {"PC", "PRVC"} => ~offered

\* What priors must not change: the moves and their MP values.
Outcome(list) ==
    {<<list[k].move, list[k].base_mp, list[k].new_mp, list[k].abs_drop>> :
        k \in 1..Len(list)}

\* C8: rank_moves with any priors mapping returns the same moves with the same
\* base_mp, new_mp and abs_drop as rank_moves without priors.
C8_PriorsNeverConstrain ==
    (ret.op = "rank_moves" /\ ValidSetting(inp)) =>
        LET r0 == rank_moves(inp, NoPriors)
        IN  /\ ret.ok = r0.ok
            /\ Outcome(ret.list) = Outcome(r0.list)

\* The changed field of setting s is at its floor or above after move.
AtOrAboveFloor(s, move) ==
    /\ move = "RR -2" => s.rr_bpm >= DEFAULT_RR_MIN
    /\ move = "PEEP -1" => s.peep >= DEFAULT_PEEP_MIN
    /\ move = "VT -50" =>
          /\ s.vt_ml >= 150
          /\ PBWKnown(s) => PerPBWAtLeastMin(s.vt_ml, s)
    /\ move = "dPinsp -2" =>
          /\ s.delta_pinsp # None => s.delta_pinsp >= 0
          /\ (s.delta_pinsp = None /\ s.pip # None) => s.pip >= s.peep

\* C9: the setting apply_move builds, and the working setting after each
\* commit of greedy_plan, has the changed field at its floor or above.
\* (Stated for input settings with rr_bpm > 0 and vt_ml >= 150.)
C9_MovesClampAtFloor ==
    /\ (ret.op = "apply_move" /\ ret.ok /\ ValidSetting(inp)
           /\ inp.vt_ml >= 150) =>
          AtOrAboveFloor(ret.state, ret.move)
    /\ plan # <<>> => AtOrAboveFloor(cur, plan[Len(plan)].move)

\* apply_move applied along the moves of a plan, from setting s.
RECURSIVE Replay(_, _)
Replay(s, list) ==
    IF list = <<>> THEN s
    ELSE Replay(apply_move(s, Head(list).move).state, Tail(list))

\* C10: replaying the plan's moves from the input setting with apply_move
\* gives the planner's working setting, the first base_mp is the MP of the
\* input setting, each later base_mp is the previous new_mp, and the last
\* new_mp is the MP of the working setting.
C10_PlanReplays ==
    /\ Replay(inp, plan) = cur
    /\ plan # <<>> =>
          /\ plan[1].base_mp = compute_mp(inp).mp
          /\ plan[Len(plan)].new_mp = compute_mp(cur).mp
          /\ \A k \in 2..Len(plan) : plan[k].base_mp = plan[k - 1].new_mp

C10_Witness ==
    /\ ret.op = "greedy_plan" /\ ret.ok
    /\ Len(ret.list) >= 2
    /\ ret.list[1].move # ret.list[2].move
    /\ ret.state # inp

\* The Ppeak values of the model's settings.
PpeakValues == {p[2] : p \in VCPressures} \ {None}

\* vc_mp_simplified on the fields of a setting.
VcMP(s) ==
    vc_mp_simplified(s.rr_bpm, s.vt_ml, s.peep, s.pplat, s.ppeak,
                     s.cstat_L_per_cmH2O)

\* A valid VolumeControl input with Ppeak supplied, on which compute_mp has
\* just returned an MP.
VcCase ==
    /\ ret.op = "compute_mp" /\ ret.ok
    /\ Upper(Strip(inp.mode)) = "VC"
    /\ inp.ppeak # None
    /\ inp.rr_bpm > 0 /\ inp.vt_ml >= 0

\* The settings that differ from s by a larger RR, VT or Ppeak.
LargerRR(s) == {[s EXCEPT !.rr_bpm = x] : x \in {y \in RRValues : y > s.rr_bpm}}
LargerVT(s) == {[s EXCEPT !.vt_ml = x] : x \in {y \in VTValues : y > s.vt_ml}}
LargerPpeak(s) ==
    {[s EXCEPT !.ppeak = x] : x \in {y \in PpeakValues : y > s.ppeak}}

\* Ppeak >= Pplat >= PEEP >= 0, Pplat as supplied or as vt_L / cstat + peep;
\* the comparison is made on the pressures times the compliance.
PressuresOrdered(s) ==
    LET c      == Cden(s.cstat_L_per_cmH2O)
        pplatN == IF s.pplat = None THEN s.vt_ml + s.peep * c
                  ELSE s.pplat * c
    IN  /\ s.ppeak * c >= pplatN
        /\ pplatN >= s.peep * c
        /\ s.peep >= 0

\* C11 as stated: for a valid VolumeControl input with Ppeak supplied the MP
\* does not fall when RR, VT or Ppeak alone is raised.
C11_MonotoneAsStated ==
    VcCase =>
        \A s2 \in LargerRR(inp) \cup LargerVT(inp) \cup LargerPpeak(inp) :
            VcMP(s2).mp >= ret.mp

\* C11 amended: the same, for inputs whose pressures are ordered
\* Ppeak >= Pplat >= PEEP >= 0 at both of the settings compared.
C11_MonotoneWhenOrdered ==
    (VcCase /\ PressuresOrdered(inp)) =>
        \A s2 \in LargerRR(inp) \cup LargerVT(inp) \cup LargerPpeak(inp) :
            PressuresOrdered(s2) => VcMP(s2).mp >= ret.mp

C11_Witness ==
    /\ VcCase /\ PressuresOrdered(inp)
    /\ inp.pplat = None
    /\ \E s2 \in LargerVT(inp) : PressuresOrdered(s2) /\ VcMP(s2).mp > ret.mp
    /\ \E s2 \in LargerRR(inp) : VcMP(s2).mp > ret.mp
    /\ \E s2 \in LargerPpeak(inp) : VcMP(s2).mp > ret.mp

AtAllFloors(s) ==
    /\ s.mode = "VC"
    /\ s.rr_bpm = DEFAULT_RR_MIN
    /\ s.peep = DEFAULT_PEEP_MIN
    /\ \/ s.vt_ml - 50 < 150
       \/ /\ PBWKnown(s)
          /\ pbw_kg(s.sex, s.height_cm) > 0
          /\ ~PerPBWAtLeastMin(s.vt_ml - 50, s)

\* C13: entry k of the plan is the first record of rank_moves on the working
\* setting reached by the k-1 entries before it (not on the input setting),
\* its abs_drop is > 0 and is the largest of that ranking; a returned plan
\* shorter than the budget ends on a setting whose ranking is empty or has a
\* top abs_drop <= 0; and a VolumeControl setting at rr_min, peep_min and the
\* VT floor gets an empty plan.
C13_GreedyCommitsBest ==
    /\ \A k \in 1..Len(plan) :
          LET s == Replay(inp, SubSeq(plan, 1, k - 1))
              r == rank_moves(s, priors)
          IN  /\ r.ok /\ r.list # <<>>
              /\ plan[k] = r.list[1]
              /\ plan[k].base_mp = compute_mp(s).mp
              /\ plan[k].abs_drop > 0
              /\ \A j \in 1..Len(r.list) :
                    r.list[j].abs_drop <= plan[k].abs_drop
    /\ (ret.op = "greedy_plan" /\ ret.ok /\ Len(ret.list) < steps) =>
          LET r == rank_moves(ret.state, priors)
          IN  r.ok /\ (r.list = <<>> \/ r.list[1].abs_drop <= 0)
    /\ (ret.op = "greedy_plan" /\ ret.ok /\ AtAllFloors(inp)) =>
          ret.list = <<>>

C13_Witness ==
    /\ ret.op = "greedy_plan" /\ ret.ok
    /\ Len(ret.list) = 1
    /\ steps = 2
    /\ ret.list[1] = rank_moves(inp, priors).list[1]
    /\ ret.state # inp
    /\ rank_moves(ret.state, priors).list = <<>>

====
